---- MODULE Spec2Model ----
(***************************************************************************)
(* Forwarding mode of the gatekeeper proxy: the credential renewal         *)
(* goroutine of forwardProxyHandler (src/forwarding.go:171-308), the       *)
(* signer closure it returns (src/forwarding.go:310-323) and the           *)
(* forwardingState they share behind a sync.RWMutex                        *)
(* (src/forwarding.go:142-157).                                            *)
(*                                                                         *)
(* The renewal goroutine is modelled statement by statement: its program   *)
(* counter pc is named after the source line of the next statement.        *)
(***************************************************************************)
EXTENDS Integers, Sequences, FiniteSets, TLC

(***************************************************************************)
(* Bounds of the model.                                                    *)
(***************************************************************************)
\* tokens the identity provider issues in one behaviour
MaxTokens == 2
\* time horizon (seconds): no timer with a later deadline fires
MaxNow == 5
\* the consecutive-failure count saturates here
MaxFails == 2

(***************************************************************************)
(* Program constants.                                                      *)
(***************************************************************************)
\* time.Duration(5) * time.Second, the login back-off
BackoffSeconds == 5
\* getWithin(cloneState.expiration, 0.85), in percent
WithinPercent == 85

\* the concurrent invocations of the signer closure
Signers == {1, 2}

\* remaining lifetime (seconds) of a credential when its response arrives:
\* expired a second ago, or good for one hour
Lifetimes == {-1, 3600}

(***************************************************************************)
(* Values.                                                                 *)
(***************************************************************************)
\* the zero value of jose.JWT, the token of the initial state
NoToken == [id |-> 0, exp |-> 0]
\* a nil *oidc.Identity
NilIdentity == [ID |-> "nil", ExpiresAt |-> 0]
\* the zero time.Time
ZeroTime == 0
\* the empty string, as a refresh token
NoRefresh == 0
\* an absent HTTP header
NoHeader == <<>>
\* version.Prog, the value of X-Forwarded-Agent
Prog == <<"agent", "keycloak-gatekeeper">>

\* jose.JWT.Encode: the wire form of a parsed token
Encode(t) == <<"jwt", t.id, t.exp>>

\* an access token string the identity provider returned that is no JWT
Garbage == <<"garbage">>

\* parseToken: the wire form back to a token and the identity of its claims
ParseOK(w) == Len(w) = 3 /\ w[1] = "jwt"
ParseToken(w) == [id |-> w[2], exp |-> w[3]]
ParseIdentity(w) == [ID |-> "forwarder", ExpiresAt |-> w[3]]

\* fmt.Sprintf("Bearer %s", token.Encode())
Bearer(t) == <<"Bearer">> \o Encode(t)

\* getWithin(expires, 0.85): that share of the time left until expires,
\* truncated toward zero
GetWithin(expires, t) ==
    LET left == expires - t
    IN  IF left >= 0 THEN (WithinPercent * left) \div 100
                     ELSE -((WithinPercent * (-left)) \div 100)

\* strings.Contains(value, x), strings being sequences of characters
Contains(value, x) ==
    \E i \in 1..(Len(value) + 1) :
        /\ i + Len(x) - 1 <= Len(value)
        /\ SubSeq(value, i, i + Len(x) - 1) = x

\* containsSubString(value, list)
ContainsSubString(value, list) ==
    \E k \in 1..Len(list) : Contains(value, list[k])

\* request hosts
Hosts == { <<"a", "b">>, <<"c">> }
\* the values of config.ForwardingDomains the model starts from
DomainConfigs == { <<>>, << <<"b">> >> }

(***************************************************************************)
(* Values of the cookie layer, src/cookies.go. A string is the sequence of *)
(* its characters, so that len() is Len and a slice is a SubSeq.           *)
(***************************************************************************)
\* SameSite cookie config options
SameSiteStrict == << "S", "t", "r", "i", "c", "t" >>
SameSiteLax == << "L", "a", "x" >>
SameSiteNone == << "N", "o", "n", "e" >>

\* the literals whose lengths makeCookieChunker takes
SetCookieLiteral ==
    << "s", "e", "t", "-", "c", "o", "o", "k", "i", "e", ":", " " >>
PathLiteral == << ";", " ", "P", "a", "t", "h", "=", "/" >>
HttpOnlyLiteral == << "H", "t", "t", "p", "O", "n", "l", "y", ";", " " >>
ExpiresLiteral ==
    << "E", "x", "p", "i", "r", "e", "s", "=", "M", "o", "n", ",", " ", "0",
       "2", " ", "J", "a", "n", " ", "2", "0", "0", "6", " ", "0", "3", ":",
       "0", "4", ":", "0", "5", " ", "M", "S", "T", ";", " " >>
SameSiteLiteral == << "S", "a", "m", "e", "S", "i", "t", "e", "=" >>
SeparatorLiteral == << ";", " " >>
SecureLiteral == << "S", "e", "c", "u", "r", "e" >>
DomainLiteral == << "D", "o", "m", "a", "i", "n", "=", ";", " " >>

\* taking a conservative margin for cases such as safari
cookieMargin == 12 + Len(SetCookieLiteral) + 3
baseCookieChunkLength == 4096 - cookieMargin

\* -10*time.Hour, the lifetime of a clearing cookie, in seconds
ClearLifetime == -36000
\* the duration argument of a cookie write: clearing, transient, one hour
Durations == { ClearLifetime, 0, 3600 }

\* the zero time.Time of http.Cookie.Expires, and an instant
NoExpires == [IsZero |-> TRUE, at |-> 0]
ExpiresAt(t) == [IsZero |-> FALSE, at |-> t]

\* a string of n characters c (concatenation makes it a plain sequence)
Pad(c, n) == [i \in 1..n |-> c] \o <<>>

\* cookie names: config.CookieAccessName, config.CookieRefreshName, the
\* requestStateCookie constant, and a cookie of the upstream application
AccessName == << "k", "c", "-", "a", "c", "c", "e", "s", "s" >>
RefreshName == << "k", "c", "-", "s", "t", "a", "t", "e" >>
requestStateCookie ==
    << "O", "A", "u", "t", "h", "_", "T", "o", "k", "e", "n", "_", "R", "e",
       "q", "u", "e", "s", "t", "_", "S", "t", "a", "t", "e" >>
SessionName == << "s", "e", "s", "s", "i", "o", "n" >>
Redacted == << "r", "e", "d", "a", "c", "t", "e", "d" >>

\* the cookie settings of the configuration: CookieDomain is not set or is
\* example.org, SameSiteCookie is not set or is one of the three options
CookieConfigs ==
    [ CookieDomain : { <<>>, << "e", "x", "a", "m", "p", "l", "e", ".",
                              "o", "r", "g" >> },
      EnableSessionCookies : BOOLEAN,
      HTTPOnlyCookie : BOOLEAN, SecureCookie : BOOLEAN,
      SameSiteCookie : { <<>>, SameSiteStrict, SameSiteLax, SameSiteNone },
      CookieAccessName : {AccessName}, CookieRefreshName : {RefreshName} ]

\* the settings a forwarding proxy runs with: no cookie is written
ForwardingConfig ==
    [ CookieDomain |-> <<>>, EnableSessionCookies |-> TRUE,
      HTTPOnlyCookie |-> TRUE, SecureCookie |-> TRUE,
      SameSiteCookie |-> SameSiteLax,
      CookieAccessName |-> AccessName, CookieRefreshName |-> RefreshName ]

\* request hosts of the cookie layer: a name with and without a port
ExampleComPort ==
    << "e", "x", "a", "m", "p", "l", "e", ".", "c", "o", "m", ":", "8", "4",
       "4", "3" >>
ExampleCom == << "e", "x", "a", "m", "p", "l", "e", ".", "c", "o", "m" >>
\* cookies on one request
MaxCookies == 3

\* a request that carries no cookie, and no operation applied yet
NoHTTPRequest == [ Host |-> <<>>, Cookies |-> <<>> ]
NoCall == [ op |-> "none", name |-> <<>>, value |-> <<>>, duration |-> 0,
            cookies |-> <<>>, filter |-> <<>>, max |-> 0, attempts |-> 0,
            outcome |-> "none" ]
\* no token handed to extractIdentity, and nothing returned
NoClaims == [ payload |-> "none" ]
NoUser == [ err |-> "none" ]

VARIABLES
    state,        \* the forwardingState fields
    rw,           \* the RWMutex writer side: "free", "pending", "held"
    readers,      \* the signers holding the read lock
    pc,           \* the renewal goroutine's next statement
    loc,          \* the renewal goroutine's local variables
    now,          \* the clock, in seconds
    cancelled,    \* forwardCtx.Done() is closed
    ret,          \* what the renewal goroutine returned
    domains,      \* config.ForwardingDomains
    spc,          \* each signer's next statement
    req,          \* each signer's request
    tokv,         \* each signer's local variable token
    issued,       \* tokens issued by the identity provider so far
    committed,    \* history: the fields as of the last Unlock
    lastGood,     \* history: the token of the last completed login/refresh
    calls,        \* history: network calls started after cancellation (0, 1, more)
    fails,        \* history: consecutive failed logins (saturating)
    config,       \* the cookie settings of oauthProxy.config
    hreq,         \* the HTTP request a cookie or filter operation is serving
    call,         \* the cookie operation applied and its arguments
    w,            \* the cookies http.SetCookie added to the response
    jwt,          \* the claims of the token handed to extractIdentity
    user          \* what extractIdentity returned

\* the forwarding mode's variables
forwardingVars == << state, rw, readers, pc, loc, now, cancelled, ret, domains,
                     spc, req, tokv, issued, committed, lastGood, calls, fails >>
\* the cookie layer's and the identity extractor's variables, which the
\* forwarding mode never touches
handlerVars == << config, hreq, call, w, jwt, user >>

vars == << forwardingVars, handlerVars >>

signerVars == << spc, req, tokv >>
history == << committed, lastGood, calls, fails >>

\* the block-scoped locals of one loop iteration, unset
NoLocals == [ AccessToken |-> <<>>, RefreshToken |-> NoRefresh,
              token |-> NoToken, identity |-> NilIdentity,
              newRefreshToken |-> NoRefresh, expiration |-> ZeroTime,
              err |-> "nil", duration |-> 0, wake |-> 0 ]

\* state := &forwardingState{login: true}
InitState == [ token |-> NoToken, refresh |-> NoRefresh,
               identity |-> NilIdentity, expiration |-> ZeroTime,
               login |-> TRUE, wait |-> FALSE ]

NoRequest == [ Host |-> <<>>, URLHost |-> <<>>,
               Authorization |-> NoHeader, Agent |-> NoHeader ]

Init ==
    /\ state = InitState
    /\ rw = "free"
    /\ readers = {}
    /\ pc = "L173"
    /\ loc = NoLocals
    /\ now = 0
    /\ cancelled = FALSE
    /\ ret = "running"
    /\ domains \in DomainConfigs
    /\ spc = [s \in Signers |-> "idle"]
    /\ req = [s \in Signers |-> NoRequest]
    /\ tokv = [s \in Signers |-> NoToken]
    /\ issued = 0
    /\ committed = InitState
    /\ lastGood = NoToken
    /\ calls = 0
    /\ fails = 0
    /\ config = ForwardingConfig
    /\ hreq = NoHTTPRequest
    /\ call = NoCall
    /\ w = <<>>
    /\ jwt = NoClaims
    /\ user = NoUser

(***************************************************************************)
(* The renewal goroutine, src/forwarding.go:171-308.                       *)
(***************************************************************************)
Max(a, b) == IF a >= b THEN a ELSE b

\* (variant: cloneState := *state copies the fields as of line 181, where
\* wait has just been cleared)
cloneStateCopied == [state EXCEPT !.wait = FALSE]

\* cloneState := state copies the pointer: cloneState is the shared state
\* itself, read by the goroutine that is its only writer
cloneState == state

\* what a step of the goroutine that touches only pc leaves alone
PcOnly ==
    UNCHANGED << state, rw, readers, loc, now, cancelled, ret, domains, handlerVars,
                 signerVars, issued, history >>

\* what a step inside a critical section leaves alone
InLock ==
    UNCHANGED << rw, readers, loc, now, cancelled, ret, domains, handlerVars,
                 signerVars, issued, history >>

\* state.Lock() at line p, continuing at q: the call announces the writer,
\* which blocks new readers, and returns once no reader holds the lock
Lock(p, q) ==
    /\ pc = p
    /\ \/ /\ rw = "free"
          /\ rw' = "pending"
          /\ pc' = pc
       \/ /\ rw = "pending"
          /\ readers = {}
          /\ rw' = "held"
          /\ pc' = q
    /\ UNCHANGED << state, readers, loc, now, cancelled, ret, domains, handlerVars,
                    signerVars, issued, history >>

\* state.Unlock() at line p, continuing at q
Unlock(p, q) ==
    /\ pc = p
    /\ rw' = "free"
    /\ pc' = q
    /\ committed' = state
    /\ UNCHANGED << state, readers, loc, now, cancelled, ret, domains, handlerVars,
                    signerVars, issued, lastGood, calls, fails >>

\* (variant: the Done case breaks out of the select, not out of the loop)
SelectDoneBreaks(p) ==
    /\ pc = p
    /\ cancelled
    /\ pc' = IF p = "L173" THEN "L179" ELSE "L173"
    /\ loc' = NoLocals
    /\ UNCHANGED << state, rw, readers, now, cancelled, ret, domains, handlerVars,
                    signerVars, issued, history >>

\* case <-r.forwardCtx.Done(): return nil, at the select of line p
SelectDone(p) ==
    /\ pc = p
    /\ cancelled
    /\ pc' = "done"
    /\ ret' = "nil"
    /\ loc' = NoLocals
    /\ UNCHANGED << state, rw, readers, now, cancelled, domains, handlerVars,
                    signerVars, issued, history >>

\* case <-time.After(d): at the select of line p, then back to the top of
\* the loop. The timer is ready once its deadline has passed; while it is
\* not, the goroutine sleeps until the deadline unless cancellation wakes it.
TimerFire(p) ==
    /\ pc = p
    /\ loc.wake <= now \/ (~cancelled /\ loc.wake <= MaxNow)
    /\ now' = Max(now, loc.wake)
    /\ pc' = "L173"
    /\ loc' = NoLocals
    /\ UNCHANGED << state, rw, readers, cancelled, ret, domains, handlerVars,
                    signerVars, issued, history >>

\* the history of calls started after cancellation: none, one, or more
CountCall == IF cancelled /\ calls <= 1 THEN calls + 1 ELSE calls

\* (variant: the loop has no cancellation check at its top)
L173_DoneIgnored ==
    /\ pc = "L173"
    /\ cancelled
    /\ pc' = "L179"
    /\ loc' = NoLocals
    /\ UNCHANGED << state, rw, readers, now, cancelled, ret, domains, handlerVars,
                    signerVars, issued, history >>

\* lines 173-177: select { case <-Done: return nil; default: }
L173_Done == SelectDone("L173")

L173_Default ==
    /\ pc = "L173"
    /\ ~cancelled
    /\ pc' = "L179"
    /\ loc' = NoLocals
    /\ UNCHANGED << state, rw, readers, now, cancelled, ret, domains, handlerVars,
                    signerVars, issued, history >>

\* lines 179-182
L179_Lock == Lock("L179", "L180")

L180_Wait ==
    /\ pc = "L180"
    /\ state' = [state EXCEPT !.wait = FALSE]
    /\ pc' = "L182"
    /\ InLock

L182_Unlock == Unlock("L182", "L185")

\* line 185: if cloneState.login
L185_Login ==
    /\ pc = "L185"
    /\ cloneState.login
    /\ pc' = "L190"
    /\ PcOnly

L185_Active ==
    /\ pc = "L185"
    /\ ~cloneState.login
    /\ pc' = "L237"
    /\ PcOnly

\* line 190: client.UserCredsToken(...) is sent
L190_Call ==
    /\ pc = "L190"
    /\ pc' = "L190w"
    /\ calls' = CountCall
    /\ UNCHANGED << state, rw, readers, loc, now, cancelled, ret, domains, handlerVars,
                    signerVars, issued, committed, lastGood, fails >>

\* lines 190-198: the login returned an error; the back-off timer is set
L190_Err ==
    /\ pc = "L190w"
    /\ loc' = [loc EXCEPT !.err = "login failed",
                          !.duration = BackoffSeconds,
                          !.wake = now + BackoffSeconds]
    /\ pc' = "L194"
    /\ fails' = IF fails < MaxFails THEN fails + 1 ELSE fails
    /\ UNCHANGED << state, rw, readers, now, cancelled, ret, domains, handlerVars,
                    signerVars, issued, committed, lastGood, calls >>

\* line 190: the login returned a response carrying a fresh access token
L190_OK ==
    /\ pc = "L190w"
    /\ issued < MaxTokens
    /\ \E life \in Lifetimes, withRefresh \in BOOLEAN :
          loc' = [loc EXCEPT
                    !.AccessToken = Encode([id |-> issued + 1, exp |-> now + life]),
                    !.RefreshToken = IF withRefresh THEN issued + 1 ELSE NoRefresh]
    /\ issued' = issued + 1
    /\ pc' = "L203"
    /\ UNCHANGED << state, rw, readers, now, cancelled, ret, domains, handlerVars,
                    signerVars, history >>

\* line 190: the login returned a response whose access token is no JWT
L190_Garbage ==
    /\ pc = "L190w"
    /\ loc' = [loc EXCEPT !.AccessToken = Garbage]
    /\ pc' = "L203"
    /\ UNCHANGED << state, rw, readers, now, cancelled, ret, domains, handlerVars,
                    signerVars, issued, history >>

\* lines 194-199 and 207-212: the back-off selects
\* (variant: the task gives up after the back-off instead of retrying)
L194_TimerReturns ==
    /\ pc = "L194"
    /\ loc.wake <= now \/ (~cancelled /\ loc.wake <= MaxNow)
    /\ now' = Max(now, loc.wake)
    /\ pc' = "done"
    /\ ret' = "nil"
    /\ loc' = NoLocals
    /\ UNCHANGED << state, rw, readers, cancelled, domains, handlerVars,
                    signerVars, issued, history >>

L194_Done == SelectDone("L194")
L194_Timer == TimerFire("L194")
L207_Done == SelectDone("L207")
L207_Timer == TimerFire("L207")

\* lines 203-211: parseToken failed; the back-off timer is set
L203_Err ==
    /\ pc = "L203"
    /\ ~ParseOK(loc.AccessToken)
    /\ loc' = [loc EXCEPT !.err = "parse failed",
                          !.duration = BackoffSeconds,
                          !.wake = now + BackoffSeconds]
    /\ pc' = "L207"
    /\ fails' = IF fails < MaxFails THEN fails + 1 ELSE fails
    /\ UNCHANGED << state, rw, readers, now, cancelled, ret, domains, handlerVars,
                    signerVars, issued, committed, lastGood, calls >>

\* line 203: token, identity, err := parseToken(resp.AccessToken)
L203_OK ==
    /\ pc = "L203"
    /\ ParseOK(loc.AccessToken)
    /\ loc' = [loc EXCEPT !.token = ParseToken(loc.AccessToken),
                          !.identity = ParseIdentity(loc.AccessToken)]
    /\ pc' = "L216"
    /\ UNCHANGED << state, rw, readers, now, cancelled, ret, domains, handlerVars,
                    signerVars, issued, history >>

\* lines 216-229: the login critical section
\* (variant: the state.Lock() of line 216 is missing)
L216_NoLock ==
    /\ pc = "L216"
    /\ pc' = "L217"
    /\ PcOnly

L216_Lock == Lock("L216", "L217")

L217_Token ==
    /\ pc = "L217"
    /\ state' = [state EXCEPT !.token = loc.token]
    /\ pc' = "L218"
    /\ InLock

L218_Identity ==
    /\ pc = "L218"
    /\ state' = [state EXCEPT !.identity = loc.identity]
    /\ pc' = "L219"
    /\ InLock

L219_Expiration ==
    /\ pc = "L219"
    /\ state' = [state EXCEPT !.expiration = loc.identity.ExpiresAt]
    /\ pc' = "L220"
    /\ InLock

L220_Wait ==
    /\ pc = "L220"
    /\ state' = [state EXCEPT !.wait = TRUE]
    /\ pc' = "L221"
    /\ InLock

L221_Login ==
    /\ pc = "L221"
    /\ state' = [state EXCEPT !.login = FALSE]
    /\ pc' = "L222"
    /\ InLock

\* (variant: line 222 is missing, the refresh token of the response is dropped)
L222_RefreshDropped ==
    /\ pc = "L222"
    /\ state' = state
    /\ pc' = "L229"
    /\ InLock

L222_Refresh ==
    /\ pc = "L222"
    /\ state' = [state EXCEPT !.refresh = loc.RefreshToken]
    /\ pc' = "L229"
    /\ InLock

\* line 229: the login is complete once the lock is released
L229_Unlock ==
    /\ pc = "L229"
    /\ rw' = "free"
    /\ pc' = "L293"
    /\ committed' = state
    /\ lastGood' = state.token
    /\ fails' = 0
    /\ UNCHANGED << state, readers, loc, now, cancelled, ret, domains, handlerVars,
                    signerVars, issued, calls >>

\* line 237: if cloneState.refresh != ""
L237_HasRefresh ==
    /\ pc = "L237"
    /\ cloneState.refresh # NoRefresh
    /\ pc' = "L244"
    /\ PcOnly

L237_NoRefresh ==
    /\ pc = "L237"
    /\ cloneState.refresh = NoRefresh
    /\ pc' = "L280"
    /\ PcOnly

\* line 244: getRefreshedToken(r.client, cloneState.refresh) is sent
L244_Call ==
    /\ pc = "L244"
    /\ pc' = "L244w"
    /\ calls' = CountCall
    /\ UNCHANGED << state, rw, readers, loc, now, cancelled, ret, domains, handlerVars,
                    signerVars, issued, committed, lastGood, fails >>

\* lines 244-245: the refresh failed, with ErrRefreshTokenExpired or another error
L244_Err ==
    /\ pc = "L244w"
    /\ \E e \in {"ErrRefreshTokenExpired", "refresh failed"} :
          loc' = [loc EXCEPT !.err = e]
    /\ pc' = "L246"
    /\ UNCHANGED << state, rw, readers, now, cancelled, ret, domains, handlerVars,
                    signerVars, issued, history >>

\* line 244: the refresh returned a new token, its expiration and perhaps a
\* new refresh token
L244_OK ==
    /\ pc = "L244w"
    /\ issued < MaxTokens
    /\ \E life \in Lifetimes, withRefresh \in BOOLEAN :
          loc' = [loc EXCEPT
                    !.token = [id |-> issued + 1, exp |-> now + life],
                    !.expiration = now + life,
                    !.newRefreshToken = IF withRefresh THEN issued + 1 ELSE NoRefresh]
    /\ issued' = issued + 1
    /\ pc' = "L262"
    /\ UNCHANGED << state, rw, readers, now, cancelled, ret, domains, handlerVars,
                    signerVars, history >>

\* lines 246-258: the refresh failure critical section, then continue
L246_Lock == Lock("L246", "L247")

\* (variant: only ErrRefreshTokenExpired demotes the session to a login)
L247_LoginIfExpired ==
    /\ pc = "L247"
    /\ state' = IF loc.err = "ErrRefreshTokenExpired"
                THEN [state EXCEPT !.login = TRUE]
                ELSE state
    /\ pc' = "L256"
    /\ InLock

\* (variant: the failed refresh also forgets the refresh token)
L247_LoginForgetsRefresh ==
    /\ pc = "L247"
    /\ state' = [state EXCEPT !.login = TRUE, !.refresh = NoRefresh]
    /\ pc' = "L256"
    /\ InLock

L247_Login ==
    /\ pc = "L247"
    /\ state' = [state EXCEPT !.login = TRUE]
    /\ pc' = "L256"
    /\ InLock

\* (variant: the refresh-failure path continues without state.Unlock())
L256_Continue ==
    /\ pc = "L256"
    /\ pc' = "L173"
    /\ committed' = state
    /\ UNCHANGED << state, rw, readers, loc, now, cancelled, ret, domains, handlerVars,
                    signerVars, issued, lastGood, calls, fails >>

L256_Unlock == Unlock("L256", "L173")

\* lines 262-277: the refresh success critical section
L262_Lock == Lock("L262", "L263")

L263_Token ==
    /\ pc = "L263"
    /\ state' = [state EXCEPT !.token = loc.token]
    /\ pc' = "L264"
    /\ InLock

L264_Expiration ==
    /\ pc = "L264"
    /\ state' = [state EXCEPT !.expiration = loc.expiration]
    /\ pc' = "L265"
    /\ InLock

L265_Wait ==
    /\ pc = "L265"
    /\ state' = [state EXCEPT !.wait = TRUE]
    /\ pc' = "L266"
    /\ InLock

L266_Login ==
    /\ pc = "L266"
    /\ state' = [state EXCEPT !.login = FALSE]
    /\ pc' = "L267"
    /\ InLock

\* (variant: state.refresh = newRefreshToken, whatever the response carries)
L267_RefreshAlways ==
    /\ pc = "L267"
    /\ state' = [state EXCEPT !.refresh = loc.newRefreshToken]
    /\ pc' = "L277"
    /\ InLock

\* lines 267-269: if newRefreshToken != "" { state.refresh = newRefreshToken }
L267_Refresh ==
    /\ pc = "L267"
    /\ state' = IF loc.newRefreshToken # NoRefresh
                THEN [state EXCEPT !.refresh = loc.newRefreshToken]
                ELSE state
    /\ pc' = "L277"
    /\ InLock

\* line 277: the refresh is complete once the lock is released
L277_Unlock ==
    /\ pc = "L277"
    /\ rw' = "free"
    /\ pc' = "L293"
    /\ committed' = state
    /\ lastGood' = state.token
    /\ UNCHANGED << state, readers, loc, now, cancelled, ret, domains, handlerVars,
                    signerVars, issued, calls, fails >>

\* lines 280-288: no refresh token is held
L280_Lock == Lock("L280", "L286")

L286_Wait ==
    /\ pc = "L286"
    /\ state' = [state EXCEPT !.wait = FALSE]
    /\ pc' = "L287"
    /\ InLock

\* (variant: line 287 is missing, login stays clear without a refresh token)
L287_LoginSkipped ==
    /\ pc = "L287"
    /\ state' = state
    /\ pc' = "L288"
    /\ InLock

L287_Login ==
    /\ pc = "L287"
    /\ state' = [state EXCEPT !.login = TRUE]
    /\ pc' = "L288"
    /\ InLock

L288_Unlock == Unlock("L288", "L293")

\* lines 293-299: if cloneState.wait { duration := getWithin(...) }
L293_Wait ==
    /\ pc = "L293"
    /\ cloneState.wait
    /\ loc' = [loc EXCEPT
                 !.duration = GetWithin(cloneState.expiration, now),
                 !.wake = now + GetWithin(cloneState.expiration, now)]
    /\ pc' = "L301"
    /\ UNCHANGED << state, rw, readers, now, cancelled, ret, domains, handlerVars,
                    signerVars, issued, history >>

L293_NoWait ==
    /\ pc = "L293"
    /\ ~cloneState.wait
    /\ pc' = "L173"
    /\ loc' = NoLocals
    /\ UNCHANGED << state, rw, readers, now, cancelled, ret, domains, handlerVars,
                    signerVars, issued, history >>

\* (variant: the Done case of the expiry wait goes on with the next
\* iteration, past its cancellation check)
L301_DoneContinues ==
    /\ pc = "L301"
    /\ cancelled
    /\ pc' = "L179"
    /\ loc' = NoLocals
    /\ UNCHANGED << state, rw, readers, now, cancelled, ret, domains, handlerVars,
                    signerVars, issued, history >>

\* lines 301-305: the expiry wait
L301_Done == SelectDone("L301")
L301_Timer == TimerFire("L301")

\* one step of the renewal goroutine
Renewal ==
    \/ L173_Done \/ L173_Default
    \/ L179_Lock \/ L180_Wait \/ L182_Unlock
    \/ L185_Login \/ L185_Active
    \/ L190_Call \/ L190_Err \/ L190_OK \/ L190_Garbage
    \/ L194_Done \/ L194_Timer
    \/ L203_Err \/ L203_OK
    \/ L207_Done \/ L207_Timer
    \/ L216_Lock \/ L217_Token \/ L218_Identity \/ L219_Expiration
    \/ L220_Wait \/ L221_Login \/ L222_Refresh \/ L229_Unlock
    \/ L237_HasRefresh \/ L237_NoRefresh
    \/ L244_Call \/ L244_Err \/ L244_OK
    \/ L246_Lock \/ L247_Login \/ L256_Unlock
    \/ L262_Lock \/ L263_Token \/ L264_Expiration \/ L265_Wait
    \/ L266_Login \/ L267_Refresh \/ L277_Unlock
    \/ L280_Lock \/ L286_Wait \/ L287_Login \/ L288_Unlock
    \/ L293_Wait \/ L293_NoWait
    \/ L301_Done \/ L301_Timer

\* r.forwardCancel(), the shutdown signal
Cancel ==
    /\ ~cancelled
    /\ cancelled' = TRUE
    /\ UNCHANGED << state, rw, readers, pc, loc, now, ret, domains, handlerVars,
                    signerVars, issued, history >>

(***************************************************************************)
(* The signer closure, src/forwarding.go:310-323.                          *)
(***************************************************************************)
\* (variant: an empty domain list signs nothing)
IsSignedListOnly(hostname) ==
    ContainsSubString(hostname, domains)

\* line 314: is the host being signed?
IsSigned(hostname) ==
    Len(domains) = 0 \/ ContainsSubString(hostname, domains)

SignerFrame ==
    UNCHANGED << state, rw, pc, loc, now, cancelled, ret, domains, handlerVars,
                 issued, history >>

\* lines 311-314: a request for host h arrives at a signer that is not
\* serving one; the previous request, if any, has been forwarded
Arrive(s, h) ==
    /\ spc[s] \in {"idle", "ret"}
    /\ req' = [req EXCEPT ![s] = [NoRequest EXCEPT !.Host = h, !.URLHost = h]]
    /\ tokv' = [tokv EXCEPT ![s] = NoToken]
    /\ spc' = [spc EXCEPT ![s] = IF IsSigned(h) THEN "L316" ELSE "ret"]
    /\ UNCHANGED readers
    /\ SignerFrame

\* (variant: the state.RLock() of line 316 is missing)
L316_NoRLock(s) ==
    /\ spc[s] = "L316"
    /\ spc' = [spc EXCEPT ![s] = "L317"]
    /\ UNCHANGED << readers, req, tokv >>
    /\ SignerFrame

\* line 316: state.RLock(), which a holding or waiting writer blocks
L316_RLock(s) ==
    /\ spc[s] = "L316"
    /\ rw = "free"
    /\ readers' = readers \cup {s}
    /\ spc' = [spc EXCEPT ![s] = "L317"]
    /\ UNCHANGED << req, tokv >>
    /\ SignerFrame

\* line 317: token = state.token
L317_Read(s) ==
    /\ spc[s] = "L317"
    /\ tokv' = [tokv EXCEPT ![s] = state.token]
    /\ spc' = [spc EXCEPT ![s] = "L318"]
    /\ UNCHANGED << readers, req >>
    /\ SignerFrame

\* line 318: state.RUnlock()
L318_RUnlock(s) ==
    /\ spc[s] = "L318"
    /\ readers' = readers \ {s}
    /\ spc' = [spc EXCEPT ![s] = "L320"]
    /\ UNCHANGED << req, tokv >>
    /\ SignerFrame

\* lines 320-321: the two headers are set, and the closure returns
L320_Headers(s) ==
    /\ spc[s] = "L320"
    /\ req' = [req EXCEPT ![s].Authorization = Bearer(tokv[s]),
                          ![s].Agent = Prog]
    /\ spc' = [spc EXCEPT ![s] = "ret"]
    /\ UNCHANGED << readers, tokv >>
    /\ SignerFrame

Signer(s) ==
    \/ \E h \in Hosts : Arrive(s, h)
    \/ L316_RLock(s)
    \/ L317_Read(s)
    \/ L318_RUnlock(s)
    \/ L320_Headers(s)

Next ==
    \/ Renewal
    \/ Cancel
    \/ \E s \in Signers : Signer(s)

Spec == Init /\ [][Next]_vars

\* the renewal goroutine and the shutdown signal alone, no request in flight
NextRenewal ==
    \/ Renewal
    \/ Cancel

SpecRenewal == Init /\ [][NextRenewal]_vars

\* the renewal goroutine beside one signer, both scheduled: a goroutine that
\* can take a step eventually takes one (an in-flight network call returns, a
\* signer that holds the read lock goes on to release it)
OneSigner == CHOOSE s \in Signers : TRUE

NextFair ==
    \/ Renewal
    \/ Cancel
    \/ Signer(OneSigner)

SpecFair ==
    /\ Init
    /\ [][NextFair]_vars
    /\ WF_vars(Renewal)
    /\ WF_vars(L317_Read(OneSigner) \/ L318_RUnlock(OneSigner))

(***************************************************************************)
(* Properties.                                                             *)
(***************************************************************************)
\* the statements of the three critical sections that assign a field
LoginSection == {"L217", "L218", "L219", "L220", "L221", "L222", "L229"}
RefreshSection == {"L263", "L264", "L265", "L266", "L267", "L277"}

\* this iteration went through the login branch and parseToken succeeded
LoginSucceeded == ParseOK(loc.AccessToken)
\* this iteration went through the refresh branch and the refresh succeeded
RefreshSucceeded == loc.AccessToken = <<>> /\ loc.token # NoToken

\* C1: a signer never observes a partially updated credential. Every change
\* of a field of the shared state is made by a step that starts and ends with
\* the exclusive lock held; a signer that is about to read the token, or has
\* just read it, holds the shared lock; the exclusive lock and a shared lock
\* are never held together; so while any signer holds the shared lock the
\* fields are those of the last completed critical section, and the token a
\* signer has read is the token of that snapshot.
C1_AtomicSnapshot ==
    /\ [][state' # state => (rw = "held" /\ rw' = "held")]_vars
    /\ [](\A s \in Signers : spc[s] \in {"L317", "L318"} => s \in readers)
    /\ [](~(rw = "held" /\ readers # {}))
    /\ [](readers # {} => state = committed)
    /\ [](\A s \in Signers : spc[s] = "L318" => tokv[s] = committed.token)

\* C1 witness: a signer has read a token issued by the identity provider
\* while the renewal goroutine is blocked in Lock() waiting to write the next.
C1_Witness ==
    \E s \in Signers :
        /\ spc[s] = "L318"
        /\ rw = "pending"
        /\ pc = "L262"
        /\ tokv[s].id >= 1

\* C2, as claimed: the token a signer reads was stored by a successful login
\* or refresh (so it is not the zero value the state is created with) and is
\* the token of the most recent one.
C2_ReadsOnlyStoredTokens ==
    \A s \in Signers :
        spc[s] = "L318" => (tokv[s] # NoToken /\ tokv[s] = lastGood)

\* C2, amended: the token a signer reads is the token of the most recent
\* completed login or refresh, and the zero-value token of the initial state
\* as long as no login has completed.
C2_ReadsLastStoredOrInitial ==
    \A s \in Signers :
        spc[s] = "L318" =>
            /\ tokv[s] = lastGood
            /\ (tokv[s] = NoToken) = (issued = 0 \/ committed.token = NoToken)
            /\ tokv[s] # NoToken => tokv[s].id \in 1..issued

\* C2 witness: a signer has read the second token the state held, after the
\* first was replaced.
C2_Witness ==
    \E s \in Signers :
        /\ spc[s] = "L318"
        /\ tokv[s].id = 2
        /\ lastGood.id = 2

\* C3: a login whose response parses ends with the token and identity parsed
\* from the response, expiration = the identity's expiry, refresh = the
\* refresh token of the response, wait set and login cleared, all assigned
\* with the exclusive lock held throughout and published by one Unlock.
C3_LoginStores ==
    /\ [](pc \in LoginSection => rw = "held" /\ LoginSucceeded)
    /\ [][(pc = "L229" /\ pc' # pc) =>
            /\ pc' = "L293"
            /\ committed.login
            /\ committed' = [ token |-> loc.token,
                              refresh |-> loc.RefreshToken,
                              identity |-> loc.identity,
                              expiration |-> loc.identity.ExpiresAt,
                              login |-> FALSE,
                              wait |-> TRUE ]
            /\ state' = committed']_vars

\* C3 witness: a login has just completed and stored a refresh token and an
\* expiry one hour ahead.
C3_Witness ==
    /\ pc = "L293"
    /\ LoginSucceeded
    /\ state.refresh # NoRefresh
    /\ state.expiration = now + 3600
    /\ state.token.id = 2

\* the two back-off selects
BackoffSelects == {"L194", "L207"}

\* C4: a failed login (error from the call, or an access token that does not
\* parse) leaves the task in the login state with the 5 second back-off armed;
\* the back-off ends either by cancellation, with the task returning, or by
\* the timer once the 5 seconds have passed, and then the task is back at the
\* top of the loop with login still set, from where, if not cancelled, it
\* issues the login call again; none of this depends on how many logins have
\* failed before.
C4_LoginRetries ==
    /\ [](pc \in BackoffSelects =>
            /\ state.login
            /\ loc.duration = 5
            /\ loc.wake = now + 5
            /\ fails >= 1)
    /\ [][(pc \in {"L190w", "L203"} /\ pc' \in BackoffSelects) =>
            state' = state]_vars
    /\ [][(pc \in BackoffSelects /\ pc' # pc) =>
            \/ cancelled /\ pc' = "done"
            \/ pc' = "L173" /\ now' >= loc.wake /\ state'.login]_vars
    /\ [][(pc \in {"L173", "L179", "L180", "L182", "L185"} /\ state.login
            /\ pc' # pc) =>
            \/ cancelled /\ pc = "L173" /\ pc' = "done"
            \/ pc' \in {"L179", "L180", "L182", "L185", "L190"} /\ state'.login]_vars
    /\ [](pc = "L190" => state.login)

\* C4 witness: after a failed login and its back-off, the login call is in
\* flight again.
C4_Witness ==
    /\ pc = "L190w"
    /\ fails >= 1
    /\ now = 5

\* the statements of the refresh-failure and no-refresh-token paths
DemotionPath == {"L246", "L247", "L256", "L280", "L286", "L287", "L288"}

\* C5: a failed refresh, whatever the error, ends with login set and the task
\* back at the top of the loop without any time having passed; with no
\* refresh token held the task sets login without a network call and returns
\* to the top of the loop without waiting; a refresh call is only ever made
\* with login clear and a refresh token held, so the next call is a login.
C5_RefreshFailureDemotes ==
    /\ [](pc \in {"L244", "L244w"} => ~state.login /\ state.refresh # NoRefresh)
    /\ [][(pc = "L244w" /\ pc' # pc /\ loc'.err # "nil") => pc' = "L246"]_vars
    /\ [][(pc = "L256" /\ pc' # pc) =>
            pc' = "L173" /\ state'.login /\ ~state'.wait /\ now' = now]_vars
    /\ [][(pc = "L237" /\ state.refresh = NoRefresh /\ pc' # pc) =>
            pc' = "L280" /\ calls' = calls]_vars
    /\ [][(pc = "L288" /\ pc' # pc) =>
            pc' = "L293" /\ state'.login /\ ~state'.wait]_vars
    /\ [][(pc = "L293" /\ state.login /\ pc' # pc) =>
            pc' = "L173" /\ now' = now]_vars
    /\ [][(pc \in DemotionPath) => (now' = now /\ pc' \notin {"L244", "L244w"})]_vars

\* C5 witness: the refresh token has expired and the task is back at the top
\* of the loop, login set, at the very time the refresh failed.
C5_Witness ==
    /\ pc = "L173"
    /\ loc.err = "ErrRefreshTokenExpired"
    /\ state.login
    /\ state.token # NoToken

\* C6: a successful refresh ends with the new token and the new expiration
\* stored, wait set and login clear; the refresh token is the one of the
\* response when that is not empty and the one held before otherwise.
C6_RefreshStores ==
    /\ [](pc \in RefreshSection => rw = "held" /\ RefreshSucceeded)
    /\ [][(pc = "L277" /\ pc' # pc) =>
            /\ pc' = "L293"
            /\ ~committed.login
            /\ committed' = [ token |-> loc.token,
                              refresh |-> IF loc.newRefreshToken # NoRefresh
                                          THEN loc.newRefreshToken
                                          ELSE committed.refresh,
                              identity |-> committed.identity,
                              expiration |-> loc.expiration,
                              login |-> FALSE,
                              wait |-> TRUE ]
            /\ state' = committed']_vars

\* C6 witness: a refresh whose response carried no refresh token has completed
\* and the refresh token held before is still held.
C6_Witness ==
    /\ pc = "L293"
    /\ RefreshSucceeded
    /\ loc.newRefreshToken = NoRefresh
    /\ state.refresh # NoRefresh
    /\ state.token = loc.token

\* C7, as claimed (its last clause): wait and login are never both true.
C7_WaitAndLoginNeverBoth == ~(state.wait /\ state.login)

\* this iteration stored a credential (a login or a refresh succeeded)
Succeeded == LoginSucceeded \/ RefreshSucceeded

\* C7, amended: after every successful login or refresh the task performs the
\* expiry wait, of 0.85 x (expiration - now) in whole seconds, before the
\* next iteration (an expired credential makes it end at once); an
\* iteration that ends with login set performs none; wait and login are never
\* both true in a state where the exclusive lock is not held (inside the
\* login critical section wait is set one statement before login is cleared).
C7_ExpiryWait ==
    /\ [](rw # "held" => ~(state.wait /\ state.login))
    /\ [](pc = "L293" => (Succeeded <=> state.wait) /\ (state.wait <=> ~state.login))
    /\ [][(pc = "L293" /\ pc' # pc) =>
            IF Succeeded THEN pc' = "L301" ELSE pc' = "L173"]_vars
    /\ [](pc = "L301" =>
            /\ ~state.login
            /\ IF state.expiration >= now
               THEN /\ loc.duration * 100 <= 85 * (state.expiration - now)
                    /\ loc.duration * 100 > 85 * (state.expiration - now) - 100
               ELSE /\ loc.duration * 100 >= 85 * (state.expiration - now)
                    /\ loc.duration * 100 < 85 * (state.expiration - now) + 100
            /\ loc.wake = now + loc.duration)
    /\ [][(pc = "L301" /\ pc' # pc) =>
            \/ cancelled /\ pc' = "done"
            \/ pc' = "L173" /\ now' >= loc.wake]_vars
    /\ [][(pc' = "L173" /\ pc # "L173" /\ ~state.login) => pc = "L301"]_vars

\* C7 witness: the credential expires in 3600 s and the expiry wait is 3060 s.
C7_Witness ==
    /\ pc = "L301"
    /\ state.expiration - now = 3600
    /\ loc.duration = 3060

\* C8, as claimed: no login or refresh call is started once the cancellation
\* signal is set.
C8_NoCallAfterCancel == calls = 0

\* C8, amended: at most one login or refresh call is started once the
\* cancellation signal is set, and the task has not returned while a call is
\* in flight.
C8_AtMostOneCallAfterCancel ==
    /\ calls <= 1
    /\ (calls = 1 => cancelled)
    /\ (pc = "done" => cancelled)

\* C8 witness: the task has returned after the one call it started after the
\* signal.
C8_Witness ==
    /\ pc = "done"
    /\ calls = 1

\* the statements at which the task looks at the cancellation signal
CancellationPoints == {"L173", "L194", "L207", "L301"}

\* C9: at the top of the loop and at every sleep a set cancellation signal can
\* end the task, at the top of the loop it does; the task ends only by
\* cancellation and returns nil; and once the signal is set the task
\* eventually returns.
C9_CancellationTerminates ==
    /\ [][(pc = "L173" /\ cancelled /\ pc' # pc) => pc' = "done"]_vars
    /\ [][(pc \in CancellationPoints /\ pc' # pc /\ pc' \notin {"done", "L173"}) =>
            pc = "L173" /\ ~cancelled]_vars
    /\ [](pc = "done" <=> ret = "nil")
    /\ [][(pc' = "done") => (cancelled /\ pc \in CancellationPoints \cup {"done"})]_vars
    /\ (cancelled ~> (pc = "done" /\ ret = "nil"))

\* C9 witness: the task has returned nil out of the expiry wait of a
\* credential that was still good for an hour.
C9_Witness ==
    /\ pc = "done"
    /\ ret = "nil"
    /\ state.wait
    /\ state.expiration = now + 3600

\* the host matches an entry of the domain list: the entry occurs in it
HostMatches(h) ==
    \E k \in 1..Len(domains) : \E i, j \in 0..Len(h) :
        SubSeq(h, i + 1, j) = domains[k]

\* C10: a request the signer has handled carries Authorization: Bearer with
\* the encoding of the token the signer read, and X-Forwarded-Agent, exactly
\* when the domain list is empty or its host matches an entry, and neither
\* header otherwise; the token read is the token stored at the time of the
\* read; no step of a signer changes a field of the credential state.
C10_SignerHeaders ==
    /\ [](\A s \in Signers : spc[s] = "ret" =>
            /\ req[s].URLHost = req[s].Host
            /\ IF domains = <<>> \/ HostMatches(req[s].Host)
               THEN /\ req[s].Authorization = <<"Bearer", "jwt", tokv[s].id, tokv[s].exp>>
                    /\ req[s].Agent = Prog
               ELSE /\ req[s].Authorization = NoHeader
                    /\ req[s].Agent = NoHeader)
    /\ [](\A s \in Signers : spc[s] = "L318" => tokv[s] = state.token)
    /\ [][(\E s \in Signers : spc'[s] # spc[s] \/ req'[s] # req[s]
                              \/ tokv'[s] # tokv[s])
            => state' = state]_vars

\* C10 witness: with a domain list configured, a request for a matching host
\* has been signed with a token issued by the identity provider, while another
\* for a host that does not match has been left alone.
C10_Witness ==
    /\ domains # <<>>
    /\ \E s, t \in Signers :
        /\ spc[s] = "ret"
        /\ HostMatches(req[s].Host)
        /\ req[s].Authorization = Bearer(state.token)
        /\ state.token.id >= 1
        /\ spc[t] = "ret"
        /\ ~HostMatches(req[t].Host)
        /\ req[t].Host # <<>>

(***************************************************************************)
(* The cookie layer, src/cookies.go: the attribute policy                  *)
(* (makeCookieDropper), the chunk budget (makeCookieChunker), the chunked  *)
(* codec (dropCookieWithChunks, clearDividedCookies) and filterCookies.    *)
(***************************************************************************)
\* strings.Split(host, ":")[0]: the host up to its first colon
SplitHost(host) ==
    LET colons == { i \in 1..Len(host) : host[i] = ":" }
    IN  IF colons = {} THEN host
        ELSE SubSeq(host, 1, (CHOOSE i \in colons : \A j \in colons : i <= j) - 1)

\* strconv.Itoa(n), n >= 0
RECURSIVE Itoa(_)
Itoa(n) ==
    LET Digits == << "0", "1", "2", "3", "4", "5", "6", "7", "8", "9" >>
    IN  IF n < 10 THEN << Digits[n + 1] >>
        ELSE Itoa(n \div 10) \o << Digits[(n % 10) + 1] >>

\* name + "-" + strconv.Itoa(i)
Continuation(name, i) == name \o << "-" >> \o Itoa(i)

\* strings.HasPrefix(s, prefix)
HasPrefix(s, prefix) ==
    /\ Len(prefix) <= Len(s)
    /\ SubSeq(s, 1, Len(prefix)) = prefix

\* lines 45-57: the cookie every cookie is copied from
baseCookie ==
    [ Name |-> <<>>, Value |-> <<>>,
      Domain |-> config.CookieDomain,
      HttpOnly |-> config.HTTPOnlyCookie,
      Path |-> << "/" >>,
      Secure |-> config.SecureCookie,
      SameSite |-> CASE config.SameSiteCookie = SameSiteStrict -> "Strict"
                     [] config.SameSiteCookie = SameSiteLax -> "Lax"
                     [] OTHER -> "unset",
      Expires |-> NoExpires ]

\* lines 59-64
makeBase(name, value) ==
    [baseCookie EXCEPT !.Name = name, !.Value = value]

\* (variant: the expiry is the duration, not counted from the clock)
ExpiresFromZero(duration) == ExpiresAt(duration)

\* time.Now().Add(duration)
Expires(duration) == ExpiresAt(now + duration)

\* (variant: the configured domain is overwritten by the request host)
cookieDropperHostDomain(host, name, value, duration) ==
    [makeBase(name, value) EXCEPT
        !.Domain = SplitHost(host),
        !.Expires = IF config.EnableSessionCookies
                    THEN IF duration < 0 THEN Expires(duration) ELSE @
                    ELSE IF duration # 0 THEN Expires(duration) ELSE @]

\* lines 66-103: the cookie setter makeCookieDropper returns for config
cookieDropper(host, name, value, duration) ==
    LET cookie == makeBase(name, value)
    IN  CASE config.CookieDomain = <<>> /\ config.EnableSessionCookies ->
               [cookie EXCEPT
                   !.Domain = SplitHost(host),
                   !.Expires = IF duration < 0 THEN Expires(duration) ELSE @]
          [] config.CookieDomain = <<>> /\ ~config.EnableSessionCookies ->
               [cookie EXCEPT
                   !.Domain = SplitHost(host),
                   !.Expires = IF duration # 0 THEN Expires(duration) ELSE @]
          [] config.CookieDomain # <<>> /\ config.EnableSessionCookies ->
               [cookie EXCEPT
                   !.Expires = IF duration < 0 THEN Expires(duration) ELSE @]
          [] config.CookieDomain # <<>> /\ ~config.EnableSessionCookies ->
               [cookie EXCEPT
                   !.Expires = IF duration # 0 THEN Expires(duration) ELSE @]

\* lines 36-39: dropCookie adds one cookie to the response
dropCookie(host, name, value, duration) ==
    << cookieDropper(host, name, value, duration) >>

\* (variant: no room is kept for the expiry of a persistent cookie)
maxCookieChunkLengthNoExpiry ==
    baseCookieChunkLength - Len(PathLiteral)
        - (IF config.HTTPOnlyCookie THEN Len(HttpOnlyLiteral) ELSE 0)
        - (IF config.SameSiteCookie # <<>>
           THEN Len(SameSiteLiteral \o config.SameSiteCookie \o SeparatorLiteral)
           ELSE 0)
        - (IF config.SecureCookie THEN Len(SecureLiteral) ELSE 0)

\* lines 120-132: what the configuration leaves of a cookie for its name,
\* its domain and its value
maxCookieChunkLength ==
    baseCookieChunkLength - Len(PathLiteral)
        - (IF config.HTTPOnlyCookie THEN Len(HttpOnlyLiteral) ELSE 0)
        - (IF ~config.EnableSessionCookies THEN Len(ExpiresLiteral) ELSE 0)
        - (IF config.SameSiteCookie # <<>>
           THEN Len(SameSiteLiteral \o config.SameSiteCookie \o SeparatorLiteral)
           ELSE 0)
        - (IF config.SecureCookie THEN Len(SecureLiteral) ELSE 0)

\* lines 133-142: the calculator makeCookieChunker returns for config
cookieChunker(host, cookieName) ==
    IF config.CookieDomain # <<>>
    THEN maxCookieChunkLength - Len(DomainLiteral) - Len(config.CookieDomain)
             - Len(cookieName)
    ELSE maxCookieChunkLength - Len(cookieName) - Len(SplitHost(host))

\* lines 113-115
getMaxCookieChunkLength(r, cookieName) == cookieChunker(r.Host, cookieName)

\* what a cookie operation did: the cookies it added to the response, the
\* cookies it looked up or cut, and whether it returned or how it panicked
Result(cookies, n, outcome) ==
    [ w |-> cookies, attempts |-> n, outcome |-> outcome ]

\* (variant: the loop only writes continuations of the full chunk length)
RECURSIVE chunkLoopWholeChunks(_, _, _, _, _, _)
chunkLoopWholeChunks(r, name, value, duration, max, i) ==
    IF ~(i + max <= Len(value)) THEN Result(<<>>, 0, "returned")
    ELSE IF max = 0 THEN Result(<<>>, 1, "integer divide by zero")
    ELSE LET rest == chunkLoopWholeChunks(r, name, value, duration, max, i + max)
         IN  [rest EXCEPT
                 !.w = dropCookie(r.Host, Continuation(name, i \div max),
                                  SubSeq(value, i + 1, i + max), duration) \o @,
                 !.attempts = @ + 1]

\* lines 154-160: the loop that writes the continuation cookies, from byte i.
\* A chunk length of zero makes i/maxCookieChunkLength divide by zero; the
\* cookies written before that stay on the response.
RECURSIVE chunkLoop(_, _, _, _, _, _)
chunkLoop(r, name, value, duration, max, i) ==
    IF ~(i < Len(value)) THEN Result(<<>>, 0, "returned")
    ELSE IF max = 0 THEN Result(<<>>, 1, "integer divide by zero")
    ELSE LET end == IF i + max > Len(value) THEN Len(value) ELSE i + max
             rest == chunkLoop(r, name, value, duration, max, i + max)
         IN  [rest EXCEPT
                 !.w = dropCookie(r.Host, Continuation(name, i \div max),
                                  SubSeq(value, i + 1, end), duration) \o @,
                 !.attempts = @ + 1]

\* lines 146-161: a negative chunk length makes value[0:maxCookieChunkLength]
\* a slice with a negative bound, which panics before any cookie is written
dropCookieWithChunks(r, name, value, duration) ==
    LET max == getMaxCookieChunkLength(r, name)
    IN  IF Len(value) <= max
        THEN Result(dropCookie(r.Host, name, value, duration), 0, "returned")
        ELSE IF max < 0
        THEN Result(<<>>, 0, "slice bounds out of range")
        ELSE LET rest == chunkLoop(r, name, value, duration, max, max)
             IN  [rest EXCEPT
                     !.w = dropCookie(r.Host, name, SubSeq(value, 1, max),
                                      duration) \o @]

\* req.Cookie(name) finds a cookie
HasCookie(r, name) ==
    \E k \in 1..Len(r.Cookies) : r.Cookies[k].Name = name

\* (variant: a continuation is cleared whether or not the request carries it)
RECURSIVE clearLoopNoBreak(_, _, _)
clearLoopNoBreak(r, name, i) ==
    IF ~(i < Len(r.Cookies)) THEN Result(<<>>, 0, "returned")
    ELSE LET rest == clearLoopNoBreak(r, name, i + 1)
         IN  [rest EXCEPT
                 !.w = dropCookie(r.Host, Continuation(name, i), <<>>,
                                  ClearLifetime) \o @,
                 !.attempts = @ + 1]

\* lines 210-216: the loop of clearDividedCookies, from index i
RECURSIVE clearLoop(_, _, _)
clearLoop(r, name, i) ==
    IF ~(i < Len(r.Cookies)) THEN Result(<<>>, 0, "returned")
    ELSE IF ~HasCookie(r, Continuation(name, i)) THEN Result(<<>>, 1, "returned")
    ELSE LET rest == clearLoop(r, name, i + 1)
         IN  [rest EXCEPT
                 !.w = dropCookie(r.Host, Continuation(name, i), <<>>,
                                  ClearLifetime) \o @,
                 !.attempts = @ + 1]

\* lines 208-217
clearDividedCookies(r, name) == clearLoop(r, name, 1)

\* lines 191-206, the body the three clearing operations share: the base
\* cookie is dropped with a negative lifetime, then its continuations
clearCookie(r, name) ==
    LET rest == clearDividedCookies(r, name)
    IN  [rest EXCEPT !.w = dropCookie(r.Host, name, <<>>, ClearLifetime) \o @]

\* (variant: only a cookie named exactly as a filter entry is censored)
filterCookiesExact(cookies, filter) ==
    [ k \in 1..Len(cookies) |->
        IF \E n \in 1..Len(filter) : cookies[k].Name = filter[n]
        THEN [Name |-> cookies[k].Name, Value |-> Redacted]
        ELSE cookies[k] ]

\* lines 220-243: the Cookie header filterCookies rebuilds
filterCookies(cookies, filter) ==
    [ k \in 1..Len(cookies) |->
        IF \E n \in 1..Len(filter) : HasPrefix(cookies[k].Name, filter[n])
        THEN [Name |-> cookies[k].Name, Value |-> Redacted]
        ELSE cookies[k] ]

(***************************************************************************)
(* The operations of the cookie layer, each applied to one request of a    *)
(* proxy whose configuration was drawn at construction.                    *)
(***************************************************************************)
\* a payload of n bytes, each byte telling its place
Payload(n) == [i \in 1..n |-> i % 256] \o <<>>

\* the host, the value and the duration of a cookie write: a host with or
\* without a port and a payload that is empty, a few bytes long or three
\* chunks of an ordinary budget, for any duration; or a host long enough to
\* exhaust the budget (the shortest of them leaves a cookie named AccessName
\* one byte of value under the most generous configuration) and one of the
\* short payloads, for an hour
DropInputs ==
    LET LongHostLen == baseCookieChunkLength - Len(PathLiteral)
                           - Len(AccessName) - 1
    IN  ({ ExampleComPort, ExampleCom }
            \X { Payload(n) : n \in { 0, 2, 3, 8100 } } \X Durations)
        \cup ({ Pad("h", LongHostLen + d) : d \in 0..2 }
                 \X { Payload(n) : n \in { 0, 2, 3 } } \X { 3600 })

\* the Cookie header of a request: up to MaxCookies cookies out of names,
\* each value telling the place of its cookie
RequestCookies(names) ==
    UNION { { [k \in 1..n |-> [Name |-> f[k], Value |-> Itoa(k)]] :
                f \in [1..n -> names] } : n \in 0..MaxCookies }

\* the cookies a request may carry beside a cookie called name
Divided(name) ==
    { name, Continuation(name, 1), Continuation(name, 2),
      Continuation(name, 3), SessionName }

\* the lists of prefixes filterCookies is given
Filters ==
    { <<>>, << AccessName >>, << RefreshName, AccessName >>, << <<>> >> }

InitCookies ==
    /\ state = InitState
    /\ rw = "free"
    /\ readers = {}
    /\ pc = "L173"
    /\ loc = NoLocals
    /\ now = MaxNow
    /\ cancelled = FALSE
    /\ ret = "running"
    /\ domains = <<>>
    /\ spc = [s \in Signers |-> "idle"]
    /\ req = [s \in Signers |-> NoRequest]
    /\ tokv = [s \in Signers |-> NoToken]
    /\ issued = 0
    /\ committed = InitState
    /\ lastGood = NoToken
    /\ calls = 0
    /\ fails = 0
    /\ config \in CookieConfigs
    /\ hreq = NoHTTPRequest
    /\ call = NoCall
    /\ w = <<>>
    /\ jwt = NoClaims
    /\ user = NoUser

CookieFrame == UNCHANGED << forwardingVars, config, jwt, user >>

\* the record of an operation and of what it did
Done(op, name, value, duration, res) ==
    [NoCall EXCEPT !.op = op, !.name = name, !.value = value,
                   !.duration = duration, !.attempts = res.attempts,
                   !.outcome = res.outcome]

\* lines 164-166: dropAccessTokenCookie(req, w, value, duration)
DropAccessTokenCookie(host, value, duration) ==
    /\ LET r == [NoHTTPRequest EXCEPT !.Host = host]
           res == dropCookieWithChunks(r, config.CookieAccessName, value, duration)
       IN  /\ hreq' = r
           /\ w' = res.w
           /\ call' = [Done("dropCookieWithChunks", config.CookieAccessName,
                            value, duration, res)
                          EXCEPT !.max = getMaxCookieChunkLength(r, config.CookieAccessName)]
    /\ CookieFrame

\* lines 169-171: dropRefreshTokenCookie(req, w, value, duration)
DropRefreshTokenCookie(host, value, duration) ==
    /\ LET r == [NoHTTPRequest EXCEPT !.Host = host]
           res == dropCookieWithChunks(r, config.CookieRefreshName, value, duration)
       IN  /\ hreq' = r
           /\ w' = res.w
           /\ call' = [Done("dropCookieWithChunks", config.CookieRefreshName,
                            value, duration, res)
                          EXCEPT !.max = getMaxCookieChunkLength(r, config.CookieRefreshName)]
    /\ CookieFrame

\* lines 191-194: clearRefreshTokenCookie(req, w)
ClearRefreshTokenCookie(host, cookies) ==
    /\ LET r == [Host |-> host, Cookies |-> cookies]
           res == clearCookie(r, config.CookieRefreshName)
       IN  /\ hreq' = r
           /\ w' = res.w
           /\ call' = Done("clearCookie", config.CookieRefreshName, <<>>,
                           ClearLifetime, res)
    /\ CookieFrame

\* lines 197-200: clearAccessTokenCookie(req, w)
ClearAccessTokenCookie(host, cookies) ==
    /\ LET r == [Host |-> host, Cookies |-> cookies]
           res == clearCookie(r, config.CookieAccessName)
       IN  /\ hreq' = r
           /\ w' = res.w
           /\ call' = Done("clearCookie", config.CookieAccessName, <<>>,
                           ClearLifetime, res)
    /\ CookieFrame

\* lines 203-206: clearStateCookie(req, w)
ClearStateCookie(host, cookies) ==
    /\ LET r == [Host |-> host, Cookies |-> cookies]
           res == clearCookie(r, requestStateCookie)
       IN  /\ hreq' = r
           /\ w' = res.w
           /\ call' = Done("clearCookie", requestStateCookie, <<>>,
                           ClearLifetime, res)
    /\ CookieFrame

\* lines 220-243: filterCookies(req, filter), which returns nil
FilterCookies(host, cookies, filter) ==
    /\ hreq' = [Host |-> host, Cookies |-> filterCookies(cookies, filter)]
    /\ call' = [NoCall EXCEPT !.op = "filterCookies", !.cookies = cookies,
                              !.filter = filter, !.outcome = "nil"]
    /\ UNCHANGED w
    /\ CookieFrame

\* one operation is applied to the proxy of a behaviour
Idle == call.op = "none"

NextCookies ==
    \/ Idle /\ \E in \in DropInputs :
                   DropAccessTokenCookie(in[1], in[2], in[3])
    \/ Idle /\ \E in \in DropInputs :
                   DropRefreshTokenCookie(in[1], in[2], in[3])
    \/ Idle /\ \E c \in RequestCookies(Divided(config.CookieRefreshName)) :
                   ClearRefreshTokenCookie(ExampleComPort, c)
    \/ Idle /\ \E c \in RequestCookies(Divided(config.CookieAccessName)) :
                   ClearAccessTokenCookie(ExampleComPort, c)
    \/ Idle /\ \E c \in RequestCookies(Divided(requestStateCookie)) :
                   ClearStateCookie(ExampleComPort, c)
    \/ Idle /\ \E c \in RequestCookies({ AccessName, Continuation(AccessName, 1),
                                         RefreshName, SessionName }),
                  f \in Filters :
                   FilterCookies(ExampleCom, c, f)

SpecCookies == InitCookies /\ [][NextCookies]_vars

(***************************************************************************)
(* Properties of the cookie layer.                                         *)
(***************************************************************************)
\* the request hosts of the model with their port stripped
HostWithoutPort(host) == IF host = ExampleComPort THEN ExampleCom ELSE host

\* a cookie write was served
Dropped == call.op = "dropCookieWithChunks"

\* the configuration of the worked example: no domain, session cookies,
\* HTTP-only, secure, same-site Lax
ExampleConfig ==
    /\ config.CookieDomain = <<>>
    /\ config.EnableSessionCookies
    /\ config.HTTPOnlyCookie
    /\ config.SecureCookie
    /\ config.SameSiteCookie = SameSiteLax

RECURSIVE Joined(_)
Joined(cookies) ==
    IF cookies = <<>> THEN <<>>
    ELSE Head(cookies).Value \o Joined(Tail(cookies))

\* C12: for any payload and budget, a cookie write emits exactly one cookie,
\* named name, when the payload is no longer than the budget; otherwise it
\* emits the first budget bytes under name and the remainder in strides of
\* budget bytes under name-1, name-2, ..., and the values of the base cookie
\* and of the continuations, in index order, make up the payload again.
C12_ChunkingRoundTrip ==
    Dropped =>
        /\ Len(w) >= 1
        /\ w[1].Name = call.name
        /\ \A k \in 2..Len(w) : w[k].Name = Continuation(call.name, k - 1)
        /\ Joined(w) = call.value
        /\ (Len(call.value) <= call.max) => (Len(w) = 1)
        /\ (Len(call.value) > call.max) =>
               /\ Len(w) >= 2
               /\ \A k \in 1..(Len(w) - 1) : Len(w[k].Value) = call.max
               /\ Len(w[Len(w)].Value) \in 1..call.max

\* 8100 bytes were written under a budget of 4011: bytes 0-4010, 4011-8021
\* and 8022-8099 went to name, name-1 and name-2
C12_Witness ==
    /\ Dropped
    /\ call.max = 4011
    /\ Len(call.value) = 8100
    /\ Len(w) = 3
    /\ w[1].Name = call.name
    /\ w[1].Value = SubSeq(call.value, 1, 4011)
    /\ w[2].Name = Continuation(call.name, 1)
    /\ w[2].Value = SubSeq(call.value, 4012, 8022)
    /\ w[3].Name = Continuation(call.name, 2)
    /\ w[3].Value = SubSeq(call.value, 8023, 8100)

\* the names of a sequence of cookies
Names(cookies) == [k \in 1..Len(cookies) |-> cookies[k].Name]

\* one of the three clearing operations was served
Cleared == call.op = "clearCookie"

\* a cookie that invalidates: no value, and an expiry in the past
Invalidates(c) ==
    /\ c.Value = <<>>
    /\ ~c.Expires.IsZero
    /\ c.Expires.at < now

\* C13: clearing emits the invalidation of the base cookie first, whether or
\* not the request carries it, and then only invalidations of continuations:
\* the one for name-i is emitted only if the request carries every one of
\* name-1 .. name-i, so that clearing stops at the first missing index. For
\* a request carrying base, base-1 and base-3 the invalidations are those of
\* base and base-1.
C13_ClearingStopsAtFirstGap ==
    Cleared =>
        /\ Len(w) >= 1
        /\ w[1].Name = call.name
        /\ \A k \in 1..Len(w) : Invalidates(w[k])
        /\ \A k \in 2..Len(w) :
               /\ w[k].Name = Continuation(call.name, k - 1)
               /\ \A j \in 1..(k - 1) :
                      HasCookie(hreq, Continuation(call.name, j))
        /\ (Names(hreq.Cookies) = << call.name, Continuation(call.name, 1),
                                     Continuation(call.name, 3) >>)
               => (Names(w) = << call.name, Continuation(call.name, 1) >>)

\* the request with the gap was cleared
C13_Witness ==
    /\ Cleared
    /\ Names(hreq.Cookies) = << call.name, Continuation(call.name, 1),
                                Continuation(call.name, 3) >>
    /\ Names(w) = << call.name, Continuation(call.name, 1) >>

\* C14: for every request and every k >= 1, if the request carries
\* name-1 .. name-k, clearing emits an invalidation for the base cookie and
\* for each of name-1 .. name-k, whatever else the request carries or lacks,
\* the base cookie included.
C14_ClearsEveryContiguousContinuation ==
    Cleared =>
        /\ \E i \in 1..Len(w) : w[i].Name = call.name /\ Invalidates(w[i])
        /\ \A k \in 1..Len(hreq.Cookies) :
               (\A j \in 1..k : HasCookie(hreq, Continuation(call.name, j)))
                   => \A j \in 1..k :
                          \E i \in 1..Len(w) :
                              /\ w[i].Name = Continuation(call.name, j)
                              /\ Invalidates(w[i])

\* a request that carries name-1 and nothing else was cleared: the loop test
\* 1 < len(req.Cookies()) failed at once, and only the base cookie was
\* invalidated
C14_Witness ==
    /\ Cleared
    /\ Names(hreq.Cookies) = << Continuation(call.name, 1) >>
    /\ Names(w) = << call.name >>
    /\ call.attempts = 0

\* a cookie write or a clearing operation was served: the cookies of w were
\* made by the attribute policy for the lifetime call.duration
Wrote == Dropped \/ Cleared

C16_LifetimeAlwaysSetsExpiry ==
    Wrote =>
        \A k \in 1..Len(w) :
            /\ (call.duration < 0) =>
                   (~w[k].Expires.IsZero /\ w[k].Expires.at < now)
            /\ (call.duration = 0) => w[k].Expires.IsZero
            /\ (call.duration > 0) => (w[k].Expires = ExpiresAt(now + call.duration))

\* C16: in every configuration a negative lifetime yields an expiry in the
\* past (now + lifetime) and a zero lifetime no expiry; a positive lifetime
\* yields the expiry now + lifetime when session cookies are disabled, and
\* no expiry when they are enabled.
C16_LifetimeRule ==
    Wrote =>
        \A k \in 1..Len(w) :
            /\ (call.duration < 0) =>
                   /\ w[k].Expires = ExpiresAt(now + call.duration)
                   /\ w[k].Expires.at < now
            /\ (call.duration = 0) => w[k].Expires.IsZero
            /\ (call.duration > 0) =>
                   w[k].Expires = IF config.EnableSessionCookies
                                  THEN NoExpires
                                  ELSE ExpiresAt(now + call.duration)

\* a cookie was written for an hour in session mode, and has no expiry
C16_Witness ==
    /\ Dropped
    /\ config.EnableSessionCookies
    /\ call.duration > 0
    /\ Len(w) >= 1
    /\ w[1].Expires.IsZero

\* the chunk budget of a configuration that keeps no room for a same-site
\* attribute: 4096 less the margin of 27, the path of 8, and 10, 39 and 6
\* bytes for the HttpOnly, expiry and Secure attributes that are on
BudgetWithoutSameSite ==
    4096 - 27 - 8
        - (IF config.HTTPOnlyCookie THEN 10 ELSE 0)
        - (IF ~config.EnableSessionCookies THEN 39 ELSE 0)
        - (IF config.SecureCookie THEN 6 ELSE 0)

\* the same-site attribute of a cookie, as the configuration spells it
SameSiteOf(c) ==
    CASE c.SameSite = "Strict" -> SameSiteStrict
      [] c.SameSite = "Lax" -> SameSiteLax
      [] c.SameSite = "None" -> SameSiteNone
      [] OTHER -> <<>>

\* C17: every cookie the attribute policy emits carries the configured
\* same-site mode, for each of Strict, Lax and None, and none when no mode is
\* configured; so the attribute is on the cookie exactly in the
\* configurations in which the chunk budget keeps room for it.
C17_SameSiteAsConfigured ==
    Wrote =>
        \A k \in 1..Len(w) :
            /\ SameSiteOf(w[k]) = config.SameSiteCookie
            /\ (w[k].SameSite # "unset") <=>
                   (maxCookieChunkLength < BudgetWithoutSameSite)

\* a cookie was written under same-site None: it carries no same-site
\* attribute, and the budget kept the 15 bytes of "SameSite=None; " for it
C17_Witness ==
    /\ Dropped
    /\ config.SameSiteCookie = SameSiteNone
    /\ Len(w) >= 1
    /\ w[1].SameSite = "unset"
    /\ maxCookieChunkLength = BudgetWithoutSameSite - 15

\* filterCookies was served
Filtered == call.op = "filterCookies"

\* the name begins with one of the prefixes
StartsWithOneOf(name, filter) ==
    \E n \in 1..Len(filter) :
        \E l \in 0..Len(name) : SubSeq(name, 1, l) = filter[n]

\* C18: after filterCookies the request carries as many cookies as before,
\* with the same names in the same order; a cookie whose name starts with
\* one of the filter prefixes, the continuations name-1, name-2, ... of a
\* filtered name among them, has the value "redacted" and every other cookie
\* has the value it had; no error is returned.
C18_CookieRedaction ==
    Filtered =>
        /\ call.outcome = "nil"
        /\ Len(hreq.Cookies) = Len(call.cookies)
        /\ Names(hreq.Cookies) = Names(call.cookies)
        /\ \A k \in 1..Len(call.cookies) :
               hreq.Cookies[k].Value =
                   IF StartsWithOneOf(call.cookies[k].Name, call.filter)
                   THEN Redacted
                   ELSE call.cookies[k].Value

\* a request carrying kc-access, kc-access-1 and session was filtered for
\* the prefix kc-access: the first two are redacted, the third is not
C18_Witness ==
    /\ Filtered
    /\ call.filter = << AccessName >>
    /\ Names(call.cookies) = << AccessName, Continuation(AccessName, 1),
                                SessionName >>
    /\ hreq.Cookies[1].Value = Redacted
    /\ hreq.Cookies[2].Value = Redacted
    /\ hreq.Cookies[3] = call.cookies[3]
    /\ call.cookies[3].Value # Redacted

\* C19: no operation of the codec can fail: whatever the value, the name,
\* the host and the configuration, and so whatever the budget, zero and
\* negative included, a cookie write returns after finitely many cookies
\* without raising an error, and clearing returns after at most as many
\* attempts as the request has cookies.
C19_CodecNeverFails ==
    /\ Dropped => call.outcome = "returned"
    /\ Cleared => /\ call.outcome = "returned"
                  /\ call.attempts <= Len(hreq.Cookies)

\* a value of two bytes was written under a budget of zero: the base cookie
\* went out empty and the operation panicked
C19_Witness ==
    /\ Dropped
    /\ call.max = 0
    /\ Len(call.value) = 2
    /\ Names(w) = << call.name >>
    /\ w[1].Value = <<>>
    /\ call.outcome = "integer divide by zero"

(***************************************************************************)
(* extractIdentity, src/forwarding.go:393-470. A claim is a JSON value     *)
(* tagged with its kind; the claims of a token are a record of them.       *)
(***************************************************************************)
Json(kind, v) == [kind |-> kind, v |-> v]

\* the tokens handed to extractIdentity: the payload decodes to claims or
\* does not, the subject is there or is not, and each claim that is read
\* comes in the shapes that JSON allows it
Tokens ==
    LET Absent == Json("absent", <<>>)
        Number == Json("number", 0)
        Str(x) == Json("string", x)
        \* a "roles" member: missing, a number, a list of role names
        RolesMembers ==
            { Absent, Number, Json("list", << Str("admin"), Str("user") >>) }
    IN  [ payload : { "claims", "garbage" },
          sub : { Absent, Str("u1") },
          email : { Str("alice@example.com") },
          exp : Lifetimes,
          claimPreferredName : { Absent, Str("alice"), Number },
          \* missing, a string, a list of strings, a number, a list that
          \* holds a number
          claimAudience :
              { Absent, Str("account"),
                Json("list", << Str("account"), Str("app") >>),
                Number, Json("list", << Str("account"), Number >>) },
          \* missing, not an object, an object with a "roles" member
          claimRealmAccess :
              { Absent, Number }
                  \cup { Json("map", [roles |-> r]) : r \in RolesMembers },
          \* missing, not an object, an object whose client entry is not
          \* an object, an object whose client entry is one
          claimResourceAccess :
              { Absent, Number,
                Json("map", [name |-> "app", entry |-> Number]) }
                  \cup { Json("map", [name |-> "app",
                                      entry |-> Json("map", [roles |-> r])])
                         : r \in RolesMembers },
          claimGroups :
              { Absent, Json("list", << Str("staff") >>), Number,
                Json("list", << Number >>) } ]

\* claims.StringClaim(name): the value, found, err
StringClaim(c) ==
    CASE c.kind = "absent" -> [v |-> "", found |-> FALSE, err |-> "nil"]
      [] c.kind = "string" -> [v |-> c.v, found |-> TRUE, err |-> "nil"]
      [] OTHER -> [v |-> "", found |-> FALSE,
                   err |-> "unable to parse claim as string"]

\* claims.StringsClaim(name): the values, found, err
StringsClaim(c) ==
    CASE c.kind = "absent" -> [v |-> <<>>, found |-> FALSE, err |-> "nil"]
      [] c.kind = "list"
           /\ \A k \in 1..Len(c.v) : c.v[k].kind = "string" ->
             [v |-> [k \in 1..Len(c.v) |-> c.v[k].v],
              found |-> TRUE, err |-> "nil"]
      [] OTHER -> [v |-> <<>>, found |-> FALSE,
                   err |-> "unable to parse claim as string array"]

\* token.Claims()
TokenClaims(token) ==
    IF token.payload = "claims" THEN [claims |-> token, err |-> "nil"]
    ELSE [claims |-> token, err |-> "malformed JWT claims"]

\* oidc.IdentityFromClaims(claims)
IdentityFromClaims(claims) ==
    LET sub == StringClaim(claims.sub)
    IN  IF sub.err # "nil" THEN [identity |-> NilIdentity, err |-> sub.err]
        ELSE IF ~sub.found
        THEN [identity |-> NilIdentity, err |-> "missing required claim: sub"]
        ELSE [identity |-> [ID |-> sub.v, Email |-> claims.email.v,
                            ExpiresAt |-> claims.exp],
              err |-> "nil"]

\* lines 406-420: the audiences, or the failure to find any
Audiences(claims) ==
    LET one == StringClaim(claims.claimAudience)
        many == StringsClaim(claims.claimAudience)
    IN  IF one.err = "nil" /\ one.found
        THEN [v |-> << one.v >>, err |-> "nil"]
        ELSE IF many.err # "nil" \/ ~many.found
        THEN [v |-> <<>>, err |-> "ErrNoTokenAudience"]
        ELSE [v |-> many.v, err |-> "nil"]

\* fmt.Sprintf("%s:%s", name, r) of each role of a client
RECURSIVE Prefixed(_, _)
Prefixed(name, roles) ==
    IF roles = <<>> THEN <<>>
    ELSE << << name, ":", Head(roles).v >> >> \o Prefixed(name, Tail(roles))

\* fmt.Sprintf("%s", r) of each role
RECURSIVE Plain(_)
Plain(roles) ==
    IF roles = <<>> THEN <<>>
    ELSE << << Head(roles).v >> >> \o Plain(Tail(roles))

\* lines 423-434: the realm roles; a claim of another shape adds none
RealmRoles(claims) ==
    LET realmRoles == claims.claimRealmAccess
    IN  IF realmRoles.kind = "map" /\ realmRoles.v.roles.kind # "absent"
           /\ realmRoles.v.roles.kind = "list"
        THEN Plain(realmRoles.v.roles.v)
        ELSE <<>>

\* lines 436-451: the client roles; a claim of another shape adds none
ClientRoles(claims) ==
    LET accesses == claims.claimResourceAccess
    IN  IF accesses.kind = "map" /\ accesses.v.entry.kind = "map"
           /\ accesses.v.entry.v.roles.kind # "absent"
           /\ accesses.v.entry.v.roles.kind = "list"
        THEN Prefixed(accesses.v.name, accesses.v.entry.v.roles.v)
        ELSE <<>>

\* (variant: the groups are read before the audience)
extractIdentityGroupsFirst(token) ==
    LET c == TokenClaims(token)
        i == IdentityFromClaims(c.claims)
        audiences == Audiences(c.claims)
        groups == StringsClaim(c.claims.claimGroups)
    IN  IF c.err # "nil" THEN [err |-> c.err]
        ELSE IF i.err # "nil" THEN [err |-> i.err]
        ELSE IF groups.err # "nil" THEN [err |-> groups.err]
        ELSE IF audiences.err # "nil" THEN [err |-> audiences.err]
        ELSE [ err |-> "nil", audiences |-> audiences.v,
               roles |-> RealmRoles(c.claims) \o ClientRoles(c.claims),
               groups |-> groups.v, id |-> i.identity.ID ]

\* lines 393-470
extractIdentity(token) ==
    LET c == TokenClaims(token)
        i == IdentityFromClaims(c.claims)
        preferred == StringClaim(c.claims.claimPreferredName)
        preferredName == IF preferred.err # "nil" \/ ~preferred.found
                         THEN i.identity.Email ELSE preferred.v
        audiences == Audiences(c.claims)
        roleList == RealmRoles(c.claims) \o ClientRoles(c.claims)
        groups == StringsClaim(c.claims.claimGroups)
    IN  IF c.err # "nil" THEN [err |-> c.err]
        ELSE IF i.err # "nil" THEN [err |-> i.err]
        ELSE IF audiences.err # "nil" THEN [err |-> audiences.err]
        ELSE IF groups.err # "nil" THEN [err |-> groups.err]
        ELSE [ err |-> "nil",
               audiences |-> audiences.v,
               email |-> i.identity.Email,
               expiresAt |-> i.identity.ExpiresAt,
               groups |-> groups.v,
               id |-> i.identity.ID,
               name |-> preferredName,
               preferredName |-> preferredName,
               roles |-> roleList ]

InitIdentity ==
    /\ state = InitState
    /\ rw = "free"
    /\ readers = {}
    /\ pc = "L173"
    /\ loc = NoLocals
    /\ now = 0
    /\ cancelled = FALSE
    /\ ret = "running"
    /\ domains = <<>>
    /\ spc = [s \in Signers |-> "idle"]
    /\ req = [s \in Signers |-> NoRequest]
    /\ tokv = [s \in Signers |-> NoToken]
    /\ issued = 0
    /\ committed = InitState
    /\ lastGood = NoToken
    /\ calls = 0
    /\ fails = 0
    /\ config = ForwardingConfig
    /\ hreq = NoHTTPRequest
    /\ call = NoCall
    /\ w = <<>>
    /\ jwt \in Tokens
    /\ user = NoUser

\* the token of the behaviour is handed to extractIdentity
ExtractIdentity ==
    /\ user = NoUser
    /\ user' = extractIdentity(jwt)
    /\ UNCHANGED << forwardingVars, config, hreq, call, w, jwt >>

SpecIdentity == InitIdentity /\ [][ExtractIdentity]_vars

(***************************************************************************)
(* Properties of extractIdentity.                                          *)
(***************************************************************************)
\* extractIdentity has returned
Extracted == user # NoUser

\* the token is a validated one: its payload decodes and names a subject
Validated == jwt.payload = "claims" /\ jwt.sub.kind = "string"

\* the audience is there as a string or as a list of strings
AudienceGiven ==
    \/ jwt.claimAudience.kind = "string"
    \/ /\ jwt.claimAudience.kind = "list"
       /\ \A k \in 1..Len(jwt.claimAudience.v) :
              jwt.claimAudience.v[k].kind = "string"

\* the groups claim is there and is no list of strings
GroupsMalformed ==
    \/ jwt.claimGroups.kind = "number"
    \/ /\ jwt.claimGroups.kind = "list"
       /\ \E k \in 1..Len(jwt.claimGroups.v) :
              jwt.claimGroups.v[k].kind # "string"

\* the roles of the claims that have the right shape at every level
GoodRoles ==
    LET Listed(c) == c.kind = "map" /\ c.v.roles.kind = "list"
        realm == jwt.claimRealmAccess
        client == jwt.claimResourceAccess
    IN  (IF Listed(realm)
         THEN << << "admin" >>, << "user" >> >> ELSE <<>>)
        \o
        (IF client.kind = "map" /\ Listed(client.v.entry)
         THEN << << "app", ":", "admin" >>, << "app", ":", "user" >> >>
         ELSE <<>>)

InCall == pc \in {"L190", "L190w", "L244", "L244w"}
\* the goroutine is in one of its three sleeps
Asleep == pc \in {"L194", "L207", "L301"}
\* the four state.Lock() statements and the statements each is followed by,
\* up to its state.Unlock()
LockStatements == {"L179", "L216", "L246", "L262", "L280"}
CriticalSections ==
    {"L180", "L182"} \cup LoginSection \cup {"L247", "L256"}
        \cup RefreshSection \cup {"L286", "L287", "L288"}

\* C21: the exclusive lock is requested only at a Lock statement and held only
\* inside a critical section, so it is free while a login or refresh call is
\* in flight, while the task sleeps, at the top of the loop and when the task
\* has returned; inside a critical section the task is never blocked and
\* leaves it only through its Unlock, which frees the lock, both on the
\* refresh-failure path and on every other; every request for the lock ends
\* with the lock free again; so a signer that arrives while the task is in a
\* call or asleep takes the read lock at once, and whenever a signer waits
\* for the read lock the task or a signer holding the lock can take a step.
C21_LockNeverHeldAcrossCallOrSleep ==
    /\ [](rw = "held" <=> pc \in CriticalSections)
    /\ [](rw = "pending" => pc \in LockStatements)
    /\ []((InCall \/ Asleep \/ pc \in {"L173", "done"}) => rw = "free")
    /\ [](pc \in CriticalSections => ENABLED Renewal)
    /\ [][(pc \in CriticalSections /\ pc' \notin CriticalSections) =>
            (pc \in {"L182", "L229", "L256", "L277", "L288"} /\ rw' = "free")]_vars
    /\ [][(pc = "L256" /\ pc' # pc) => (pc' = "L173" /\ rw' = "free")]_vars
    /\ ((rw # "free") ~> (rw = "free"))
    /\ [](\A s \in Signers :
            (spc[s] = "L316" /\ (InCall \/ Asleep)) => ENABLED L316_RLock(s))
    /\ [](\A s \in Signers :
            (spc[s] = "L316" /\ ~ENABLED L316_RLock(s)) =>
                \/ ENABLED Renewal
                \/ \E t \in readers : ENABLED (L317_Read(t) \/ L318_RUnlock(t)))

\* C21 witness: a signer has taken the read lock while the refresh call is in
\* flight, after a login stored the first token
C21_Witness ==
    /\ pc = "L244w"
    /\ rw = "free"
    /\ spc[OneSigner] = "L317"
    /\ OneSigner \in readers
    /\ state.token.id = 1

(***************************************************************************)
(* Sizes of the cookies of a divided value.                                *)
(***************************************************************************)
\* the value written is longer than a budget of at least one byte
Divides == Dropped /\ call.max >= 1 /\ Len(call.value) > call.max

\* C22: when dropCookieWithChunks divides a value that is longer than a
\* budget of at least one byte, it returns, the number of cookies it emits is
\* the length of the value divided by the budget and rounded up, no cookie
\* carries more than budget bytes, the base cookie and every continuation but
\* the last carry exactly budget bytes, and the last carries at least one.
C22_ChunkSizes ==
    Divides =>
        /\ call.outcome = "returned"
        /\ Len(w) = (Len(call.value) + call.max - 1) \div call.max
        /\ Len(w) >= 2
        /\ \A k \in 1..Len(w) : Len(w[k].Value) <= call.max
        /\ \A k \in 1..(Len(w) - 1) : Len(w[k].Value) = call.max
        /\ Len(w[Len(w)].Value) \in 1..call.max

\* a value of three bytes was divided under a budget of two: a base cookie of
\* two bytes and one continuation of one byte
C22_Witness ==
    /\ Divides
    /\ call.max = 2
    /\ Len(call.value) = 3
    /\ Len(w) = 2
    /\ Len(w[1].Value) = 2
    /\ Len(w[2].Value) = 1

(***************************************************************************)
(* What a failed renewal leaves alone.                                     *)
(***************************************************************************)
\* the credential fields of a forwardingState, without its two flags
Credential(s) == << s.token, s.refresh, s.identity, s.expiration >>

\* C23: the token, the refresh token, the identity and the expiration change
\* only inside the critical section of a login whose response parsed or of a
\* refresh that succeeded, each at its own assignment, and the identity never
\* changes at a refresh; a login that fails, a token that does not parse and
\* a refresh that fails change at most the flags login and wait, and so does
\* every Unlock but the two that end a success; so outside a critical
\* section the token stored is the token of the last login or refresh that
\* succeeded (the zero token before the first), however many renewals have
\* failed since, and it is the token a signer reads.
C23_FailuresKeepCredential ==
    /\ [][state'.token # state.token =>
            \/ pc = "L217" /\ LoginSucceeded
            \/ pc = "L263" /\ RefreshSucceeded]_vars
    /\ [][state'.identity # state.identity =>
            (pc = "L218" /\ LoginSucceeded)]_vars
    /\ [][state'.expiration # state.expiration =>
            \/ pc = "L219" /\ LoginSucceeded
            \/ pc = "L264" /\ RefreshSucceeded]_vars
    /\ [][state'.refresh # state.refresh =>
            \/ pc = "L222" /\ LoginSucceeded
            \/ pc = "L267" /\ RefreshSucceeded]_vars
    /\ [][(pc \in {"L190w", "L203", "L194", "L207", "L244w"} \cup DemotionPath) =>
            (pc' \in LoginSection \cup RefreshSection
                \/ Credential(state') = Credential(state))]_vars
    /\ [][(pc \in RefreshSection \cup {"L262"}) =>
            state'.identity = state.identity]_vars
    /\ [][Credential(committed') # Credential(committed) =>
            (pc \in {"L229", "L277"} /\ lastGood' = state.token)]_vars
    /\ [][lastGood' # lastGood => pc \in {"L229", "L277"}]_vars
    /\ [](rw # "held" => (state.token = lastGood /\ committed.token = lastGood))
    /\ [](\A s \in Signers : spc[s] = "L318" => tokv[s] = lastGood)

\* C23 witness: after a login stored the first token, the refresh failed
\* and so did the login that followed; the first token is still stored and a
\* signer has just read it
C23_Witness ==
    /\ pc = "L194"
    /\ fails >= 1
    /\ loc.err = "login failed"
    /\ lastGood.id = 1
    /\ state.token = lastGood
    /\ state.refresh # NoRefresh
    /\ state.login
    /\ \E s \in Signers : spc[s] = "L318" /\ tokv[s] = lastGood

(***************************************************************************)
(* The renewal goroutine after cancellation.                               *)
(***************************************************************************)
\* where the goroutine can be once a call it started after the signal is in
\* flight or has returned: in the call, in the handling of its response, in
\* a sleep, at the top of the loop, or gone
AfterLastCall ==
    {"L190w", "L203", "L194", "L207", "L216", "L244w", "L246", "L247", "L256",
     "L262", "L293", "L301", "L173", "done"}
        \cup LoginSection \cup RefreshSection

\* C24: once the cancellation signal is set, the task starts at most one
\* more login or refresh call, from the call statement an iteration had
\* reached when the signal was set; with the signal set the check at the top
\* of the loop always ends the task, so no new iteration begins; a sleep ends
\* the task too unless its timer is already due, and then the task is at the
\* top of the loop; so after the one call the task only handles its
\* response, whatever it is, and returns without another call.
C24_OneCallThenExit ==
    /\ [](calls <= 1 /\ (calls = 1 => cancelled))
    /\ [][calls' # calls =>
            /\ cancelled /\ calls = 0 /\ calls' = 1
            /\ \/ pc = "L190" /\ pc' = "L190w"
               \/ pc = "L244" /\ pc' = "L244w"]_vars
    /\ [][(cancelled /\ pc = "L173" /\ pc' # pc) =>
            (pc' = "done" /\ ret' = "nil")]_vars
    /\ [][(cancelled /\ Asleep /\ pc' # pc) =>
            \/ pc' = "done" /\ ret' = "nil"
            \/ pc' = "L173" /\ loc.wake <= now]_vars
    /\ [](calls = 1 => pc \in AfterLastCall)
    /\ [][(calls = 1 /\ pc \notin {"L190w", "L244w"}) =>
            pc' \notin {"L190w", "L244w"}]_vars
    /\ ((calls = 1) ~> (pc = "done" /\ calls = 1))

\* C24 witness: a refresh that was sent after the signal has succeeded; its
\* token is stored and the task is in the expiry wait, where it will return
C24_Witness ==
    /\ cancelled
    /\ calls = 1
    /\ pc = "L301"
    /\ RefreshSucceeded
    /\ state.token = loc.token
    /\ state.token.id = 2

(***************************************************************************)
(* Progress of the renewal goroutine.                                      *)
(***************************************************************************)
\* the login call is in flight
LoginAttempt == pc = "L190w"
\* the login of this iteration returned a token that parses, and the
\* goroutine is on its way through the login critical section
LoginInHand ==
    \/ pc = "L203" /\ ParseOK(loc.AccessToken)
    \/ pc \in {"L216"} \cup LoginSection
\* the goroutine sleeps until after the last instant the clock of the model
\* reaches
BeyondHorizon == Asleep /\ loc.wake > MaxNow

\* C25: with the goroutine scheduled and no cancellation, whenever login is
\* set and no successful login is being stored, a login call is eventually
\* in flight; a login whose response parses eventually leaves the state with
\* its token stored and login clear; after a failed refresh, and when no
\* refresh token is held, a login call is eventually in flight; and a login
\* or refresh call is in flight again and again. (A sleep that would end
\* after the last instant of the clock is not followed further.)
C25_RenewalProgress ==
    /\ ((state.login /\ ~LoginInHand) ~>
            (LoginAttempt \/ cancelled \/ BeyondHorizon))
    /\ (LoginInHand ~>
            (pc = "L293" /\ ~state.login /\ state.wait
                /\ state.token = loc.token /\ state.token # NoToken))
    /\ ((pc \in {"L246", "L280"}) ~> (LoginAttempt \/ cancelled))
    /\ []<>(pc \in {"L190w", "L244w"} \/ cancelled \/ BeyondHorizon)

\* C25 witness: the refresh of a stored token failed, login was set again and
\* the login call is in flight, with no cancellation
C25_Witness ==
    /\ LoginAttempt
    /\ ~cancelled
    /\ state.login
    /\ state.token.id = 1
    /\ state.refresh # NoRefresh
====
